---- MODULE Spec2Model ----
(***************************************************************************)
(* The SENSE dashboard orchestrator (DashboardPage of the Gemini-Live      *)
(* variant, src/unnamed/part_004 lines 155-644): the live session and its  *)
(* reconnect timer, the gated write path, the relay socket, the video      *)
(* frame throttle and the PCM playback engine.                             *)
(*                                                                         *)
(* The browser runs every handler to completion on one event loop, so one  *)
(* action is one whole handler.  The refs and React state of the component *)
(* are the variables; a handler is written as a function from the record   *)
(* of all of them (Cur) to the record after it, so that a handler calling  *)
(* another handler is function composition, and Set(r) assigns the result. *)
(***************************************************************************)
EXTENDS Integers, Sequences, FiniteSets, TLC

(* ------------------------------ bounds -------------------------------- *)
\* provider sessions created during one behaviour
MaxSessions == 3
\* relay sockets created during one behaviour
MaxSockets == 3
\* distinct relay frames (1..MaxFrame); 0 stands for the empty string
MaxFrame == 2
\* distinct microphone blocks (1..MaxBlock)
MaxBlock == 2

(* --------------------------- program constants ------------------------ *)
\* WebSocket.OPEN, and the other ready-states relative to it
WS_OPEN == 1
WS_CONNECTING == WS_OPEN - 1
WS_CLOSING == WS_OPEN + 1
WS_CLOSED == WS_OPEN + 2
\* close code the close handler treats as a rejection of the session
POLICY_CODE == 1008
\* delay of the live session's reconnect timer, in ms
GEMINI_RECONNECT_MS == 1200
\* delay of the relay's reconnect timer, in ms
VIEWER_RECONNECT_MS == 1500
MAX_LOG == 120

CloseCodes == {1000, 1006, POLICY_CODE}
CloseReasons == {"", "quota exceeded"}

VARIABLES
  phase,                      \* lifecycle of the component instance
  mountedRef, intentionalGeminiCloseRef, geminiConnectedRef,
  geminiConnectingRef, sessionRef, geminiReconnectTimerRef,
  geminiConnected,            \* React state geminiConnected (= sessionActive)
  sessions,                   \* provider sessions created so far
  timeouts,                   \* pending window.setTimeout callbacks
  micPc, micAwait, micWorkletRef,
  micPort,                    \* a block posted by the worklet is in flight
  markerSent,                 \* history: audioStreamEnd written ahead of that block
  wsRef, sockets, viewerReconnectTimerRef, piConnected,
  cameraOn, hasPiPreview, latestPiFrameRef, frameTimer,
  retries,                    \* history: reconnects scheduled since the last open
  lastRecv, recvSinceTick,    \* history: relay frames seen by the handler
  srcGone,                    \* history: what happened since source_disconnected
  lastOp, logged, sends, timersSet   \* what the last handler did

dvars == << phase, mountedRef, intentionalGeminiCloseRef, geminiConnectedRef,
           geminiConnectingRef, sessionRef, geminiReconnectTimerRef,
           geminiConnected, sessions, timeouts, micPc, micAwait, micWorkletRef,
           micPort, markerSent, wsRef, sockets, viewerReconnectTimerRef, piConnected,
           cameraOn, hasPiPreview, latestPiFrameRef, frameTimer,
           retries, lastRecv, recvSinceTick, srcGone,
           lastOp, logged, sends, timersSet >>

\* The playback engine and the message handler's text state.
VARIABLES
  playerRef,                  \* whether createPcmPlayer has run
  queue, offset, currentChunk,
  transcript,
  mp3AudioRef,                \* the <audio> element of synthesized speech
  owed,                       \* history: decoded samples fed and not yet due
  output,                     \* the buffer the last render tick filled
  due,                        \* history: what that tick owed the output
  lastMsg,                    \* the last handler of this part
  cleared                     \* history: clear() ran and no tick has run since

pvars == << playerRef, queue, offset, currentChunk, transcript, mp3AudioRef,
            owed, output, due, lastMsg, cleared >>

\* Synthesized speech: the clip of the <audio> element (part_003) and the
\* speech queue that produces the clips.
VARIABLES
  mp3Playing,                 \* the element of mp3AudioRef is playing
  mp3Cut,                     \* history: the last handler paused a playing clip
  pendingText,                \* the speech queue's pending buffer
  lastSpeech                  \* history: what the speech queue's last step did

svars == << mp3Playing, mp3Cut, pendingText, lastSpeech >>

\* The microphone framer (PCMInputProcessor of the worklet module).
VARIABLES
  micBuffer, micOffset,       \* this.buffer, this.offset
  micStream,                  \* history: every input sample, in order
  posted                      \* history: the blocks posted to the port

fvars == << micBuffer, micOffset, micStream, posted >>

\* The websocket effect of the vision-stream dashboard (part_005): the
\* variables of one run of the effect.
VARIABLES
  teardown, socket, reconnectTimer, keepaliveTimer,
  visionSockets,              \* readyState of every socket the effect created
  visionTimers,               \* the timeouts and intervals that are active
  visionLast                  \* history: the last handler of the effect

vvars == << teardown, socket, reconnectTimer, keepaliveTimer, visionSockets,
            visionTimers, visionLast >>

\* The parts of the program outside the dashboard, the player and speech.
xvars == << fvars, vvars >>

vars == << dvars, pvars, svars, xvars >>

Min(a, b) == IF a < b THEN a ELSE b

Cur ==
  [ phase |-> phase, mountedRef |-> mountedRef,
    intentionalGeminiCloseRef |-> intentionalGeminiCloseRef,
    geminiConnectedRef |-> geminiConnectedRef,
    geminiConnectingRef |-> geminiConnectingRef,
    sessionRef |-> sessionRef,
    geminiReconnectTimerRef |-> geminiReconnectTimerRef,
    geminiConnected |-> geminiConnected, sessions |-> sessions,
    timeouts |-> timeouts, micPc |-> micPc, micAwait |-> micAwait,
    micWorkletRef |-> micWorkletRef, micPort |-> micPort,
    markerSent |-> markerSent, wsRef |-> wsRef, sockets |-> sockets,
    viewerReconnectTimerRef |-> viewerReconnectTimerRef,
    piConnected |-> piConnected, cameraOn |-> cameraOn,
    hasPiPreview |-> hasPiPreview, latestPiFrameRef |-> latestPiFrameRef,
    frameTimer |-> frameTimer, retries |-> retries, lastRecv |-> lastRecv,
    recvSinceTick |-> recvSinceTick, srcGone |-> srcGone,
    lastOp |-> lastOp, logged |-> logged, sends |-> sends,
    timersSet |-> timersSet ]

Set(r) ==
  /\ phase' = r.phase
  /\ mountedRef' = r.mountedRef
  /\ intentionalGeminiCloseRef' = r.intentionalGeminiCloseRef
  /\ geminiConnectedRef' = r.geminiConnectedRef
  /\ geminiConnectingRef' = r.geminiConnectingRef
  /\ sessionRef' = r.sessionRef
  /\ geminiReconnectTimerRef' = r.geminiReconnectTimerRef
  /\ geminiConnected' = r.geminiConnected
  /\ sessions' = r.sessions
  /\ timeouts' = r.timeouts
  /\ micPc' = r.micPc
  /\ micAwait' = r.micAwait
  /\ micWorkletRef' = r.micWorkletRef
  /\ micPort' = r.micPort
  /\ markerSent' = r.markerSent
  /\ wsRef' = r.wsRef
  /\ sockets' = r.sockets
  /\ viewerReconnectTimerRef' = r.viewerReconnectTimerRef
  /\ piConnected' = r.piConnected
  /\ cameraOn' = r.cameraOn
  /\ hasPiPreview' = r.hasPiPreview
  /\ latestPiFrameRef' = r.latestPiFrameRef
  /\ frameTimer' = r.frameTimer
  /\ retries' = r.retries
  /\ lastRecv' = r.lastRecv
  /\ recvSinceTick' = r.recvSinceTick
  /\ srcGone' = r.srcGone
  /\ lastOp' = r.lastOp
  /\ logged' = r.logged
  /\ sends' = r.sends
  /\ timersSet' = r.timersSet

\* The record of the last handler: its name and its inputs (id: the session
\* or socket of the event; n: the close code, the frame of a message, or
\* for a tick the frames received since the tick before; text: the close
\* reason or the message type).
Op(name, id, n, text) ==
  [op |-> name, id |-> id, n |-> n, text |-> text]

\* The state a handler starts from: nothing logged, sent or scheduled yet.
Begin(op) ==
  [Cur EXCEPT !.lastOp = op, !.logged = << >>, !.sends = << >>,
              !.timersSet = << >>]

\* addLog: the entry goes to the front of the event log, cut to MAX_LOG.
\* `logged` is the part of the log the current handler has written.
AddLog(r, text) ==
  LET l == << text >> \o r.logged
  IN  [r EXCEPT !.logged = SubSeq(l, 1, Min(Len(l), MAX_LOG))]

(* ------------------------------ timers -------------------------------- *)
\* window.setTimeout returns a handle no pending timeout and no ref holds.
FreshHandle(r) ==
  CHOOSE h \in 1..4 :
    /\ h \notin {t.id : t \in r.timeouts}
    /\ h # r.geminiReconnectTimerRef
    /\ h # r.viewerReconnectTimerRef

ClearTimeout(r, h) ==
  [r EXCEPT !.timeouts = {t \in @ : t.id # h}]

SetTimeout(r, h, cb, ms) ==
  [r EXCEPT !.timeouts = @ \cup {[id |-> h, cb |-> cb]},
            !.timersSet = Append(@, [cb |-> cb, ms |-> ms, n |-> r.retries])]

(* ----------------------- the provider session ------------------------- *)
\* readyState read through a null session handle
NO_WS == WS_CONNECTING - 1
\* GEMINI_API_KEY is build configuration; the build modelled has one
HasApiKey == TRUE

Entry(tag, detail) == [tag |-> tag, detail |-> detail]

\* session.close(): the transport starts its closing handshake
SessionClose(r, sid) ==
  IF r.sessions[sid].ws \in {WS_CONNECTING, WS_OPEN}
  THEN [r EXCEPT !.sessions[sid].ws = WS_CLOSING]
  ELSE r

\* What one call of safeSendRealtimeInput saw and did.
SendRec(r, kind, data, wrote, threw, result) ==
  [ kind |-> kind, data |-> data, sid |-> r.sessionRef,
    flag |-> r.geminiConnectedRef,
    ws |-> IF r.sessionRef = 0 THEN NO_WS ELSE r.sessions[r.sessionRef].ws,
    wrote |-> wrote, threw |-> threw, result |-> result,
    escaped |-> FALSE, console |-> FALSE ]

\* A write path that trusts the cached flag (the fault the transport check
\* guards against).
TransportOpenUnchecked(r) == TRUE

\* The gate of safeSendRealtimeInput: a session handle, the cached flag.
GatePasses(r) == r.sessionRef # 0 /\ r.geminiConnectedRef

\* The transport check of safeSendRealtimeInput (readyState is a number in
\* every session the SDK hands out).
TransportOpen(r) == r.sessions[r.sessionRef].ws = WS_OPEN

\* The record of a failed send that was reported with console.log.
OnConsole(rec) == [rec EXCEPT !.console = TRUE]

\* safeSendRealtimeInput(payload); `throws` is whether the SDK's
\* session.sendRealtimeInput throws on this call.  The transport branch
\* reports on the console only; the catch also calls addLog.
SafeSendRealtimeInput(r, kind, data, throws) ==
  IF ~GatePasses(r)
  THEN [r EXCEPT !.sends = Append(@, SendRec(r, kind, data, FALSE, FALSE, FALSE))]
  ELSE IF ~TransportOpen(r)
  THEN [r EXCEPT !.geminiConnectedRef = FALSE, !.geminiConnected = FALSE,
                 !.sends = Append(@, OnConsole(
                             SendRec(r, kind, data, FALSE, FALSE, FALSE)))]
  ELSE IF throws
  THEN [AddLog(r, Entry("Gemini socket send failed", ""))
          EXCEPT !.sessionRef = 0, !.geminiConnectedRef = FALSE,
                 !.geminiConnected = FALSE,
                 !.sends = Append(@, OnConsole(
                             SendRec(r, kind, data, FALSE, TRUE, FALSE)))]
  ELSE [r EXCEPT !.sends = Append(@, SendRec(r, kind, data, TRUE, FALSE, TRUE))]

\* handleSendText(text): session.sendClientContent is called on the stored
\* handle, outside any try; `throws` is whether the SDK throws on this call,
\* and an exception leaves the handler (escaped).
HandleSendText(r, text, throws) ==
  IF r.sessionRef = 0 THEN r
  ELSE IF throws
  THEN [r EXCEPT !.sends =
          Append(@, [SendRec(r, "text", text, FALSE, TRUE, FALSE)
                       EXCEPT !.escaped = TRUE])]
  ELSE AddLog([r EXCEPT !.sends =
                 Append(@, SendRec(r, "text", text, TRUE, FALSE, TRUE))],
              Entry("You", ""))

\* connectGemini up to its await: the guard, then ai.live.connect starts.
ConnectGemini(r) ==
  IF r.sessionRef # 0 \/ r.geminiConnectingRef THEN r
  ELSE IF ~HasApiKey
  THEN AddLog(r, Entry("Missing VITE_GEMINI_API_KEY", ""))
  ELSE [r EXCEPT !.geminiConnectingRef = TRUE,
                 !.sessions = Append(@, [ws |-> WS_CONNECTING,
                                         promise |-> "pending",
                                         opened |-> FALSE])]

\* callbacks.onopen
OnOpenHandler(r) ==
  IF ~r.mountedRef THEN r
  ELSE AddLog([r EXCEPT !.geminiConnectedRef = TRUE,
                        !.geminiConnected = TRUE],
              Entry("Gemini Live connected", ""))

\* callbacks.onerror
OnErrorHandler(r) ==
  AddLog([r EXCEPT !.geminiConnectedRef = FALSE, !.geminiConnected = FALSE],
         Entry("Gemini error", ""))

\* An exponential backoff min(max, base * 2^n).
Backoff(n, base, max) == Min(max, base * 2 ^ n)

\* The most consecutive reconnects a run within MaxSessions can schedule
\* before its last close.
AttemptCap == MaxSessions - 1

\* A reconnect delay that doubles with every attempt, capped at 8 times
\* the base.
ReconnectDelayDoubling(n) ==
  Backoff(n, GEMINI_RECONNECT_MS, 8 * GEMINI_RECONNECT_MS)

\* A close handler that gives up after AttemptCap reconnects.
MayRetryCapped(n) == n < AttemptCap

\* The delay the close handler gives its reconnect timer.
ReconnectDelay(n) == GEMINI_RECONNECT_MS

\* Whether the close handler schedules a reconnect after n earlier ones.
MayRetry(n) == TRUE

\* Whether the close handler treats the close code as a rejection.
IsFatal(code) == code = POLICY_CODE

\* The retry branch of callbacks.onclose.
ScheduleReconnect(r) ==
  LET r1 == IF r.geminiReconnectTimerRef # 0
            THEN ClearTimeout(r, r.geminiReconnectTimerRef) ELSE r
      h  == FreshHandle(r1)
  IN  [SetTimeout(r1, h, "gemini", ReconnectDelay(r1.retries))
         EXCEPT !.geminiReconnectTimerRef = h, !.retries = @ + 1]

\* callbacks.onclose
OnCloseHandler(r, code, reason) ==
  LET r1 == [r EXCEPT !.geminiConnectedRef = FALSE, !.sessionRef = 0]
      r2 == AddLog([r1 EXCEPT !.geminiConnected = FALSE],
                   Entry("Gemini Live disconnected", ""))
  IN  IF ~r1.mountedRef THEN r1
      ELSE IF r2.intentionalGeminiCloseRef THEN r2
      ELSE IF IsFatal(code)
      THEN AddLog(r2, Entry("Gemini rejected session",
                            IF reason = "" THEN "model/policy error"
                                           ELSE reason))
      ELSE IF MayRetry(r2.retries) THEN ScheduleReconnect(r2)
      ELSE r2

\* The callback of the reconnect timer.
ReconnectCallback(r) ==
  IF r.mountedRef /\ r.sessionRef = 0 /\ ~r.geminiConnectingRef
  THEN ConnectGemini(r) ELSE r

\* connectGemini after its await resolved with session sid.
ConnectResolved(r, sid) ==
  LET r1 == [r EXCEPT !.sessions[sid].promise = "resolved"]
      r2 == IF ~r1.mountedRef THEN SessionClose(r1, sid)
            ELSE [r1 EXCEPT !.sessionRef = sid]
  IN  [r2 EXCEPT !.geminiConnectingRef = FALSE]

\* connectGemini after its await rejected: catch, finally.
ConnectRejected(r, sid) ==
  [AddLog([r EXCEPT !.sessions[sid].promise = "rejected",
                    !.sessions[sid].ws = WS_CLOSED],
          Entry("Failed to connect Gemini Live", ""))
     EXCEPT !.geminiConnectingRef = FALSE]

\* disconnectGemini without lines 494-497: the reconnect timer stays pending.
DisconnectGeminiKeepsTimer(r) ==
  LET r1 == [r EXCEPT !.intentionalGeminiCloseRef = TRUE,
                      !.geminiConnectedRef = FALSE]
      r2 == IF r1.sessionRef # 0 THEN SessionClose(r1, r1.sessionRef) ELSE r1
  IN  [r2 EXCEPT !.sessionRef = 0, !.geminiConnected = FALSE]

\* disconnectGemini
DisconnectGemini(r) ==
  LET r1 == [r EXCEPT !.intentionalGeminiCloseRef = TRUE]
      r2 == IF r1.geminiReconnectTimerRef # 0
            THEN [ClearTimeout(r1, r1.geminiReconnectTimerRef)
                    EXCEPT !.geminiReconnectTimerRef = 0]
            ELSE r1
      r3 == [r2 EXCEPT !.geminiConnectedRef = FALSE]
      r4 == IF r3.sessionRef # 0 THEN SessionClose(r3, r3.sessionRef) ELSE r3
  IN  [r4 EXCEPT !.sessionRef = 0, !.geminiConnected = FALSE]

\* stopMic: the nodes are disconnected and the marker goes to the send
\* path; the port's handler stays attached, so a block the worklet posted
\* before the disconnect is still delivered.
StopMic(r, throws) ==
  LET r1 == SafeSendRealtimeInput(
              AddLog([r EXCEPT !.micWorkletRef = FALSE,
                               !.micPort = @ \/ r.micWorkletRef],
                     Entry("Microphone stopped", "")),
              "audioStreamEnd", 0, throws)
  IN  [r1 EXCEPT !.markerSent =
                   r1.micPort /\ (@ \/ r1.sends[Len(r1.sends)].wrote)]

(* --------------------------- the relay socket ------------------------- *)
SocketClose(r, k) ==
  IF r.sockets[k] \in {WS_CONNECTING, WS_OPEN}
  THEN [r EXCEPT !.sockets[k] = WS_CLOSING]
  ELSE r

\* connectBackendViewer
ConnectBackendViewer(r) ==
  IF r.wsRef # 0 /\ r.sockets[r.wsRef] <= WS_OPEN THEN r
  ELSE [r EXCEPT !.sockets = Append(@, WS_CONNECTING),
                 !.wsRef = Len(r.sockets) + 1]

\* socket.onopen
ViewerOnOpen(r) ==
  AddLog([r EXCEPT !.piConnected = TRUE], Entry("Connected to backend relay", ""))

\* The messages the relay can deliver: msg.type, msg.source_connected,
\* msg.data (0 is the empty string); "malformed" is a payload JSON.parse
\* rejects, "other" a type the handler does not know.
RelayMessages ==
  [type : {"viewer_connected"}, src : BOOLEAN, data : {0}]
    \cup [type : {"source_connected", "source_disconnected", "error",
                  "malformed", "other"}, src : {FALSE}, data : {0}]
    \cup [type : {"video_preview"}, src : {FALSE}, data : 0..MaxFrame]

\* A video_preview branch that keeps a frame already stored until a tick
\* has taken it.
StorePreviewKeepsFirst(r, b64) ==
  IF b64 = 0 THEN r
  ELSE [r EXCEPT !.latestPiFrameRef = IF r.recvSinceTick > 0 THEN @ ELSE b64,
                 !.hasPiPreview = TRUE, !.lastRecv = b64,
                 !.recvSinceTick = Min(@ + 1, 2),
                 !.srcGone.preview = TRUE]

\* The `video_preview` branch of socket.onmessage.
StorePreview(r, b64) ==
  IF b64 = 0 THEN r
  ELSE [r EXCEPT !.latestPiFrameRef = b64, !.hasPiPreview = TRUE,
                 !.lastRecv = b64,
                 !.recvSinceTick = Min(@ + 1, 2),
                 !.srcGone.preview = TRUE]

\* The source_disconnected branch without line 457: the last frame is kept.
SourceDisconnectedKeepsFrame(r) ==
  AddLog([r EXCEPT !.cameraOn = FALSE, !.hasPiPreview = FALSE,
                   !.recvSinceTick = 0,
                   !.srcGone = [gone |-> TRUE, preview |-> FALSE,
                                camSet |-> FALSE, srcMsg |-> FALSE]],
         Entry("Pi source disconnected", ""))

\* The `source_disconnected` branch of socket.onmessage.
SourceDisconnected(r) ==
  AddLog([r EXCEPT !.cameraOn = FALSE, !.hasPiPreview = FALSE,
                   !.latestPiFrameRef = 0, !.recvSinceTick = 0,
                   !.srcGone = [gone |-> TRUE, preview |-> FALSE,
                                camSet |-> FALSE, srcMsg |-> FALSE]],
         Entry("Pi source disconnected", ""))

\* setCameraOn(true), by the relay handler (srcMsg) or by startCamera
CameraOn(r, bySrcMsg) ==
  [r EXCEPT !.cameraOn = TRUE, !.srcGone.camSet = TRUE,
            !.srcGone.srcMsg = @ \/ bySrcMsg,
            !.srcGone.gone = @ /\ ~bySrcMsg]

\* A catch branch that also forgets the camera and its last frame.
MalformedMessageResetsCamera(r) ==
  AddLog([r EXCEPT !.cameraOn = FALSE, !.latestPiFrameRef = 0],
         Entry("Malformed relay message", ""))

\* The catch branch of socket.onmessage: JSON.parse threw.
MalformedMessage(r) == AddLog(r, Entry("Malformed relay message", ""))

\* socket.onmessage
ViewerOnMessage(r, msg) ==
  CASE msg.type = "malformed" -> MalformedMessage(r)
    [] msg.type = "viewer_connected" ->
         IF msg.src
         THEN AddLog(CameraOn(r, TRUE), Entry("Pi source already connected", ""))
         ELSE r
    [] msg.type = "source_connected" ->
         AddLog(CameraOn(r, TRUE), Entry("Pi source connected", ""))
    [] msg.type = "source_disconnected" -> SourceDisconnected(r)
    [] msg.type = "video_preview" -> StorePreview(r, msg.data)
    [] msg.type = "error" -> AddLog(r, Entry("Relay error", ""))
    [] OTHER -> r

\* A relay close handler that keeps its timer in the live session's ref.
ViewerOnCloseSharedTimer(r) ==
  LET r1 == [AddLog([r EXCEPT !.piConnected = FALSE],
                    Entry("Backend relay disconnected", ""))
               EXCEPT !.wsRef = 0]
      r2 == IF r1.geminiReconnectTimerRef # 0
            THEN ClearTimeout(r1, r1.geminiReconnectTimerRef) ELSE r1
      h  == FreshHandle(r2)
  IN  IF ~r1.mountedRef THEN r1
      ELSE [SetTimeout(r2, h, "viewer", VIEWER_RECONNECT_MS)
              EXCEPT !.geminiReconnectTimerRef = h]

\* socket.onclose
ViewerOnClose(r) ==
  LET r1 == [AddLog([r EXCEPT !.piConnected = FALSE],
                    Entry("Backend relay disconnected", ""))
               EXCEPT !.wsRef = 0]
      r2 == IF r1.viewerReconnectTimerRef # 0
            THEN ClearTimeout(r1, r1.viewerReconnectTimerRef) ELSE r1
      h  == FreshHandle(r2)
  IN  IF ~r1.mountedRef THEN r1
      ELSE [SetTimeout(r2, h, "viewer", VIEWER_RECONNECT_MS)
              EXCEPT !.viewerReconnectTimerRef = h]

(* ------------------------- the frame throttle ------------------------- *)
\* The interval of the throttle effect exists while cameraOn is true and
\* the component is mounted (the effect and its cleanup, run at commit).
Render(r) ==
  [r EXCEPT !.frameTimer = r.cameraOn /\ r.phase \in {"mounted", "loggedOut"}]

\* The interval callback.
FrameTick(r, throws) ==
  LET b64 == r.latestPiFrameRef
      r1  == [r EXCEPT !.recvSinceTick = 0]
  IN  IF b64 = 0 THEN r1
      ELSE SafeSendRealtimeInput(r1, "video", b64, throws)

\* startCamera / stopCamera
StartCamera(r) ==
  AddLog(CameraOn(r, FALSE), Entry("Pi camera forwarding enabled", ""))

StopCamera(r) ==
  AddLog([r EXCEPT !.cameraOn = FALSE], Entry("Pi camera forwarding paused", ""))

(* ------------------------ mount, unmount, logout ---------------------- *)
\* The mount effect (the user is logged in: a token is stored).
MountEffect(r) ==
  ConnectGemini(ConnectBackendViewer(
    [r EXCEPT !.mountedRef = TRUE, !.intentionalGeminiCloseRef = FALSE,
              !.phase = "mounted"]))

\* The cleanup of the mount effect.
MountCleanup(r) ==
  LET r1 == [r EXCEPT !.mountedRef = FALSE]
      r2 == IF r1.viewerReconnectTimerRef # 0
            THEN [ClearTimeout(r1, r1.viewerReconnectTimerRef)
                    EXCEPT !.viewerReconnectTimerRef = 0]
            ELSE r1
      r3 == IF r2.geminiReconnectTimerRef # 0
            THEN [ClearTimeout(r2, r2.geminiReconnectTimerRef)
                    EXCEPT !.geminiReconnectTimerRef = 0]
            ELSE r2
      r4 == IF r3.wsRef # 0 /\ r3.sockets[r3.wsRef] = WS_OPEN
            THEN SocketClose(r3, r3.wsRef) ELSE r3
  IN  DisconnectGemini([r4 EXCEPT !.wsRef = 0])

\* All effect cleanups of the component, in the order of their effects:
\* the mount effect, the throttle effect (Render), the audio cleanup.
Cleanups(r, throws) ==
  StopMic([MountCleanup(r) EXCEPT !.phase = "unmounted"], throws)

\* handleLogout
HandleLogout(r, throws) ==
  LET r1 == StopMic(r, throws)
      r2 == IF r1.wsRef # 0 THEN SocketClose(r1, r1.wsRef) ELSE r1
  IN  [DisconnectGemini(r2) EXCEPT !.phase = "loggedOut"]

(* ----------------------------- the microphone ------------------------- *)
\* startMic up to its first await that does not resolve at once.
StartMic(r) ==
  LET r1 == IF r.sessionRef = 0 THEN ConnectGemini(r) ELSE r
  IN  IF Len(r1.sessions) > Len(r.sessions)
      THEN [r1 EXCEPT !.micPc = "connect", !.micAwait = Len(r1.sessions)]
      ELSE [r1 EXCEPT !.micPc = "media"]

\* startMic after getUserMedia, resume and addModule resolved.
\* With the new worklet attached any block may arrive, so what the old
\* port holds no longer needs tracking.
MicStarted(r) ==
  AddLog([r EXCEPT !.micWorkletRef = TRUE, !.micPc = "idle",
                   !.micPort = FALSE, !.markerSent = FALSE],
         Entry("Microphone started", ""))

\* startMic's catch
MicFailed(r) ==
  AddLog([r EXCEPT !.micPc = "idle"], Entry("Mic error", ""))

\* connectGemini returned to the startMic that awaits it
ResumeMic(r, sid) ==
  IF r.micPc = "connect" /\ r.micAwait = sid
  THEN [r EXCEPT !.micPc = "media", !.micAwait = 0] ELSE r

\* A port handler that sends the block it kept from before.
MicBlockSendsKept(r, b, throws) == SafeSendRealtimeInput(r, "audio", 1, throws)

\* worklet.port.onmessage for the captured block b
MicBlock(r, b, throws) == SafeSendRealtimeInput(r, "audio", b, throws)

(* ------------------------------- actions ------------------------------ *)
NoOp == Op("init", 0, 0, "")

DashInit ==
  /\ phase = "init"
  /\ mountedRef = FALSE /\ intentionalGeminiCloseRef = FALSE
  /\ geminiConnectedRef = FALSE /\ geminiConnectingRef = FALSE
  /\ sessionRef = 0 /\ geminiReconnectTimerRef = 0
  /\ geminiConnected = FALSE
  /\ sessions = << >> /\ timeouts = {}
  /\ micPc = "idle" /\ micAwait = 0 /\ micWorkletRef = FALSE
  /\ micPort = FALSE /\ markerSent = FALSE
  /\ wsRef = 0 /\ sockets = << >> /\ viewerReconnectTimerRef = 0
  /\ piConnected = FALSE /\ cameraOn = FALSE /\ hasPiPreview = FALSE
  /\ latestPiFrameRef = 0 /\ frameTimer = FALSE
  /\ retries = 0 /\ lastRecv = 0 /\ recvSinceTick = 0
  /\ srcGone = [gone |-> FALSE, preview |-> FALSE, camSet |-> FALSE,
                srcMsg |-> FALSE]
  /\ lastOp = NoOp /\ logged = << >> /\ sends = << >> /\ timersSet = << >>

\* A handler's result becomes the next state, within the bounds.
Do(r) ==
  /\ Len(r.sessions) <= MaxSessions
  /\ Len(r.sockets) <= MaxSockets
  /\ Set(Render(r))
  /\ UNCHANGED << pvars, svars, xvars >>

Sids == 1..Len(sessions)
Socks == 1..Len(sockets)

\* The component mounts (production build: effects run once).
Mount ==
  /\ phase = "init"
  /\ Do(MountEffect(Begin(Op("Mount", 0, 0, ""))))

\* The component mounts under StrictMode (development build): React runs
\* the effects, their cleanups and the effects again, back to back.
MountStrict ==
  /\ phase = "init"
  /\ Do(MountEffect(Cleanups(MountEffect(Begin(Op("MountStrict", 0, 0, ""))),
                             FALSE)))

Unmount ==
  /\ phase \in {"mounted", "loggedOut"}
  /\ \E throws \in BOOLEAN :
       Do(Cleanups(Begin(Op("Unmount", 0, 0, "")), throws))

Logout ==
  /\ phase = "mounted"
  /\ \E throws \in BOOLEAN :
       Do(HandleLogout(Begin(Op("Logout", 0, 0, "")), throws))

\* The provider's transport opens: callbacks.onopen runs.
GeminiOpen ==
  \E s \in Sids :
    /\ sessions[s].ws = WS_CONNECTING /\ sessions[s].promise = "pending"
    /\ Do(OnOpenHandler(
            [Begin(Op("onopen", s, 0, ""))
               EXCEPT !.sessions[s].ws = WS_OPEN, !.sessions[s].opened = TRUE,
                      !.retries = 0]))

\* ai.live.connect resolves with the session.
GeminiResolve ==
  \E s \in Sids :
    /\ sessions[s].promise = "pending" /\ sessions[s].opened
    /\ Do(ResumeMic(ConnectResolved(Begin(Op("resolve", s, 0, "")), s), s))

\* ai.live.connect rejects.
GeminiReject ==
  \E s \in Sids :
    /\ sessions[s].promise = "pending" /\ ~sessions[s].opened
    /\ Do(ResumeMic(ConnectRejected(Begin(Op("reject", s, 0, "")), s), s))

\* callbacks.onerror runs.
GeminiError ==
  \E s \in Sids :
    /\ sessions[s].ws \in {WS_CONNECTING, WS_OPEN, WS_CLOSING}
    /\ sessions[s].promise # "rejected"
    /\ Do(OnErrorHandler(Begin(Op("onerror", s, 0, ""))))

\* The peer starts the closing handshake: readyState leaves OPEN before
\* the close event is delivered.
GeminiClosing ==
  \E s \in Sids :
    /\ sessions[s].ws = WS_OPEN
    /\ Do([Begin(Op("closing", s, 0, "")) EXCEPT !.sessions[s].ws = WS_CLOSING])

\* The close event of a session is delivered: callbacks.onclose runs.
GeminiClose ==
  \E s \in Sids, code \in CloseCodes, reason \in CloseReasons :
    /\ (reason # "" => code = POLICY_CODE)   \* e.reason is read for that code only
    /\ sessions[s].ws \in {WS_CONNECTING, WS_OPEN, WS_CLOSING}
    /\ sessions[s].promise # "rejected"
    /\ Do(OnCloseHandler(
            [Begin(Op("onclose", s, code, reason))
               EXCEPT !.sessions[s].ws = WS_CLOSED],
            code, reason))

\* The live session's reconnect timeout fires.
GeminiTimerFire ==
  \E t \in timeouts :
    /\ t.cb = "gemini"
    /\ Do(ReconnectCallback([Begin(Op("gemini.timer", 0, 0, ""))
                               EXCEPT !.timeouts = @ \ {t}]))

\* The relay's reconnect timeout fires: its callback is connectBackendViewer.
ViewerTimerFire ==
  \E t \in timeouts :
    /\ t.cb = "viewer"
    /\ Do(ConnectBackendViewer([Begin(Op("viewer.timer", 0, 0, ""))
                                  EXCEPT !.timeouts = @ \ {t}]))

StartMicClick ==
  /\ phase = "mounted" /\ ~micWorkletRef /\ micPc = "idle"
  /\ Do(StartMic(Begin(Op("startMic", 0, 0, ""))))

MicReady ==
  /\ micPc = "media"
  /\ Do(MicStarted(Begin(Op("micStarted", 0, 0, ""))))

MicError ==
  /\ micPc = "media"
  /\ Do(MicFailed(Begin(Op("micFailed", 0, 0, ""))))

MicData ==
  /\ micWorkletRef \/ micPort
  /\ \E b \in 1..MaxBlock, throws \in BOOLEAN :
       Do(MicBlock([Begin(Op("micBlock", 0, b, ""))
                      EXCEPT !.micPort = FALSE, !.markerSent = FALSE],
                   b, throws))

StopMicClick ==
  /\ phase = "mounted" /\ micWorkletRef
  /\ \E throws \in BOOLEAN :
       Do(StopMic(Begin(Op("stopMic", 0, 0, "")), throws))

ViewerOpen ==
  \E k \in Socks :
    /\ sockets[k] = WS_CONNECTING
    /\ Do(ViewerOnOpen([Begin(Op("viewer.onopen", k, 0, ""))
                          EXCEPT !.sockets[k] = WS_OPEN]))

ViewerMessage ==
  \E k \in Socks, msg \in RelayMessages :
    /\ sockets[k] = WS_OPEN
    /\ Do(ViewerOnMessage(Begin(Op("viewer.onmessage", k, msg.data, msg.type)),
                          msg))

\* socket.onerror: the handler closes the socket.
ViewerError ==
  \E k \in Socks :
    /\ sockets[k] \in {WS_CONNECTING, WS_OPEN}
    /\ Do(SocketClose(Begin(Op("viewer.onerror", k, 0, "")), k))

ViewerClose ==
  \E k \in Socks :
    /\ sockets[k] \in {WS_CONNECTING, WS_OPEN, WS_CLOSING}
    /\ Do(ViewerOnClose([Begin(Op("viewer.onclose", k, 0, ""))
                           EXCEPT !.sockets[k] = WS_CLOSED]))

Tick ==
  /\ frameTimer
  /\ \E throws \in BOOLEAN :
       Do(FrameTick(Begin(Op("tick", 0, recvSinceTick, "")), throws))

StartCameraClick ==
  /\ phase = "mounted" /\ ~cameraOn
  /\ Do(StartCamera(Begin(Op("startCamera", 0, 0, ""))))

StopCameraClick ==
  /\ phase = "mounted" /\ cameraOn
  /\ Do(StopCamera(Begin(Op("stopCamera", 0, 0, ""))))

\* The user submits a non-empty message in the Send Message form.
SendText ==
  /\ phase = "mounted"
  /\ \E throws \in BOOLEAN :
       Do(HandleSendText(Begin(Op("sendText", 0, 1, "")), 1, throws))

\* The component's lifecycle.
Lifecycle == Mount \/ MountStrict \/ Unmount \/ Logout

\* The live session: the provider's events and the reconnect timer.
LiveNext ==
  \/ GeminiOpen \/ GeminiResolve \/ GeminiReject \/ GeminiError
  \/ GeminiClosing \/ GeminiClose \/ GeminiTimerFire

\* The microphone: the two buttons, getUserMedia's outcome, the port.
MicNext == StartMicClick \/ MicReady \/ MicError \/ MicData \/ StopMicClick

\* The relay socket, its reconnect timer, the camera and the throttle.
RelayNext ==
  \/ ViewerOpen \/ ViewerMessage \/ ViewerError \/ ViewerClose
  \/ ViewerTimerFire \/ Tick \/ StartCameraClick \/ StopCameraClick

\* The live session on its own, with the user's text messages (the relay
\* socket is created and left alone).
Next == Lifecycle \/ LiveNext \/ SendText

\* The relay and the throttle, writing to the session of the mount effect.
RelayEnv ==
  \/ Mount \/ Unmount
  \/ GeminiOpen \/ GeminiResolve \/ GeminiClosing \/ GeminiClose

NextRelay == RelayEnv \/ RelayNext

\* The microphone and the session it writes to (reconnects are started by
\* startMic; the reconnect timer is set and left pending).
NextMic ==
  \/ Mount \/ Unmount \/ Logout
  \/ GeminiOpen \/ GeminiResolve \/ GeminiReject
  \/ GeminiClosing \/ GeminiClose
  \/ MicNext

(* ======================= the PCM playback engine ====================== *)
(* createPcmPlayer and handleLiveMessage (part_004), with the handling of   *)
(* synthesized speech of the relay-proxied variant (part_003).  A sample    *)
(* int16 / 32768 is written as its numerator int16; a frame is given by the *)
(* bytes its base64 text stands for.                                        *)

\* frames the queue may hold before the next render tick
MaxQueue == 2
\* samples of one output buffer (the ScriptProcessor's buffer size)
OutLen == 2
\* text deltas in the transcript
MaxText == 2

\* the divisor of the decoder: every sample numerator is below it
INT16_RANGE == 32768
\* what a Float32Array stores for `undefined`
NaN == INT16_RANGE

\* The audio payloads the provider may send, as bytes: none, one byte, an
\* odd and an even number of bytes.
Payloads ==
  { << >>, << 7 >>, << 1, 0 >>, << 255, 255 >>, << 0, 128, 9 >>,
    << 2, 0, 255, 127 >> }

Null == [null |-> TRUE, samples |-> << >>]
Chunk(samples) == [null |-> FALSE, samples |-> samples]

\* DataView.getInt16(i * 2, true): little-endian, two's complement
GetInt16(bytes, i) ==
  LET u == bytes[2 * i + 1] + 256 * bytes[2 * i + 2]
  IN  IF u >= INT16_RANGE THEN u - 2 * INT16_RANGE ELSE u

\* The decoding of feed: new Float32Array(byteLength / 2) has
\* floor(byteLength / 2) elements.
Decode(bytes) ==
  [i \in 1..(Len(bytes) \div 2) |-> GetInt16(bytes, i - 1)]

\* feed
PlayerFeed(q, bytes) == Append(q, Decode(bytes))

\* currentChunk[offset] of a typed array: undefined (stored as NaN) beyond
\* its length
ChunkAt(c, off) ==
  IF off < Len(c.samples) THEN c.samples[off + 1] ELSE NaN

\* The refill at the head of the render loop.
Refill(p) ==
  IF p.currentChunk.null \/ p.offset >= Len(p.currentChunk.samples)
  THEN [p EXCEPT !.currentChunk = IF p.queue = << >> THEN Null
                                  ELSE Chunk(Head(p.queue)),
                 !.queue = IF p.queue = << >> THEN << >> ELSE Tail(p.queue),
                 !.offset = 0]
  ELSE p

\* onaudioprocess: the loop `while (i < output.length)`, from index i.
RECURSIVE RenderLoop(_, _, _)
RenderLoop(p, i, n) ==
  IF i >= n THEN p
  ELSE LET p1 == Refill(p)
       IN  IF p1.currentChunk.null
           THEN RenderLoop([p1 EXCEPT !.out = Append(@, 0)], i + 1, n)
           ELSE RenderLoop(
                  [p1 EXCEPT !.out = Append(@, ChunkAt(p1.currentChunk, p1.offset)),
                             !.offset = @ + 1],
                  i + 1, n)

\* clear
PlayerClear(p) ==
  [p EXCEPT !.queue = << >>, !.currentChunk = Null, !.offset = 0]

\* The messages of the live session: msg.data (<< >> when absent or the
\* empty string, else << bytes >>), whether msg.text is there, and
\* serverContent.interrupted and serverContent.turnComplete.
LiveMessages ==
  [data : {<< >>} \cup {<< b >> : b \in Payloads \ {<< >>}},
   text : BOOLEAN, interrupted : BOOLEAN, turnComplete : BOOLEAN]

\* What a tick owes its buffer: the first n of a sequence, the rest of it.
Zeros(n) == [i \in 1..n |-> 0]
Take(sq, n) == SubSeq(sq, 1, Min(n, Len(sq)))
Drop(sq, n) == SubSeq(sq, Min(n, Len(sq)) + 1, Len(sq))

PlayerInit ==
  /\ playerRef = FALSE /\ queue = << >> /\ offset = 0 /\ currentChunk = Null
  /\ transcript = << >> /\ mp3AudioRef = 0
  /\ owed = << >> /\ output = << >>
  /\ due = [samples |-> << >>, n |-> 0] /\ lastMsg = "init"
  /\ cleared = FALSE

\* handleLiveMessage
HandleLiveMessage ==
  \E msg \in LiveMessages :
    LET fed   == msg.data # << >>
        q1    == IF fed THEN PlayerFeed(queue, msg.data[1]) ELSE queue
        p1    == [queue |-> q1, offset |-> offset, currentChunk |-> currentChunk]
        p2    == IF msg.interrupted /\ (playerRef \/ fed) THEN PlayerClear(p1)
                 ELSE p1
        t1    == IF msg.text THEN Append(transcript, "delta") ELSE transcript
        t2    == IF msg.turnComplete /\ t1 # << >> THEN Append(t1, "\n") ELSE t1
        owed1 == IF fed THEN owed \o Decode(msg.data[1]) ELSE owed
    IN  /\ Len(q1) <= MaxQueue
        /\ Len(t2) <= MaxText
        /\ playerRef' = (playerRef \/ fed)
        /\ queue' = p2.queue /\ offset' = p2.offset
        /\ currentChunk' = p2.currentChunk
        /\ transcript' = t2
        /\ owed' = IF msg.interrupted /\ (playerRef \/ fed) THEN << >> ELSE owed1
        /\ lastMsg' = IF msg.interrupted THEN "interrupted" ELSE "message"
        /\ cleared' = (cleared \/ (msg.interrupted /\ (playerRef \/ fed)))
        /\ mp3Cut' = FALSE
        /\ UNCHANGED << mp3AudioRef, output, due, dvars, mp3Playing,
                        pendingText, lastSpeech, xvars >>

\* onaudioprocess
RenderTick ==
  /\ playerRef
  /\ LET p == RenderLoop([queue |-> queue, offset |-> offset,
                          currentChunk |-> currentChunk, out |-> << >>],
                         0, OutLen)
     IN  /\ queue' = p.queue /\ offset' = p.offset
         /\ currentChunk' = p.currentChunk
         /\ output' = p.out
  /\ due' = [samples |-> Take(owed \o Zeros(OutLen), OutLen),
             n |-> Min(Len(owed), OutLen)]
  /\ owed' = Drop(owed, OutLen)
  /\ lastMsg' = "tick"
  /\ cleared' = FALSE
  /\ mp3Cut' = FALSE
  /\ UNCHANGED << playerRef, transcript, mp3AudioRef, dvars, mp3Playing,
                  pendingText, lastSpeech, xvars >>

\* connectWs.onmessage of part_003, type audio_mp3: the element playing is
\* paused and the new clip (a synthesized chunk) starts.
WsAudioMp3 ==
  /\ \E clip \in 1..2 : mp3AudioRef' = clip
  /\ mp3Cut' = mp3Playing
  /\ mp3Playing' = TRUE
  /\ lastMsg' = "audio_mp3"
  /\ UNCHANGED << playerRef, queue, offset, currentChunk, transcript, owed,
                  output, due, cleared, dvars, pendingText, lastSpeech,
                  xvars >>

\* connectWs.onmessage of part_003, type interrupted: a log entry.
WsInterrupted ==
  /\ lastMsg' = "ws.interrupted"
  /\ mp3Cut' = FALSE
  /\ UNCHANGED << playerRef, queue, offset, currentChunk, transcript,
                  mp3AudioRef, owed, output, due, cleared, dvars, mp3Playing,
                  pendingText, lastSpeech, xvars >>

NextPlayer == HandleLiveMessage \/ RenderTick \/ WsAudioMp3 \/ WsInterrupted

(* ========================== synthesized speech ======================== *)
(* The speech queue runs in the relay server, whose code is not among the  *)
(* sources: its flush policy is modelled from section 4.5 of the           *)
(* specification.  The dashboard's side of it is the audio_mp3 handler of  *)
(* part_003, which plays the clips the server sends.                       *)

\* length above which pending text is flushed
FLUSH_THRESHOLD == 32
\* text fragments one pending buffer may accumulate
MaxFrags == 5

Terminal == {".", "!", "?"}
Whitespace == {" ", "\n"}

Word8 == << "a", "b", "c", "d", "e", "f", "g", "h" >>
ObstacleAhead ==
  << "O", "b", "s", "t", "a", "c", "l", "e", " ", "a", "h", "e", "a", "d", "." >>

\* The text deltas the live session may deliver.
Fragments ==
  { Word8, ObstacleAhead, << "a" >>, << " " >>, << "." >>, << "?", " " >>,
    << "!", "\n" >>, << ".", "a" >> }

\* The text of a buffer of fragments.
RECURSIVE Concat(_)
Concat(q) == IF q = << >> THEN << >> ELSE Head(q) \o Concat(Tail(q))

RECURSIVE StripTrailing(_)
StripTrailing(buf) ==
  IF buf # << >> /\ buf[Len(buf)] \in Whitespace
  THEN StripTrailing(SubSeq(buf, 1, Len(buf) - 1))
  ELSE buf

\* The buffer ends in terminal punctuation, optionally followed by whitespace.
EndsInTerminal(buf) ==
  LET t == StripTrailing(buf) IN t # << >> /\ t[Len(t)] \in Terminal

\* A flush policy that flushes on reaching the threshold.
ShouldFlushAtThreshold(buf) ==
  EndsInTerminal(buf) \/ Len(buf) >= FLUSH_THRESHOLD

\* The flush policy applied after a text delta was appended.
ShouldFlush(buf) ==
  EndsInTerminal(buf) \/ Len(buf) > FLUSH_THRESHOLD

SpeechStep(op, buf, chunk) == [op |-> op, buf |-> buf, chunk |-> chunk]

\* No clip has been played yet.
Mp3Init == mp3Playing = FALSE /\ mp3Cut = FALSE

SpeechInit ==
  /\ pendingText = << >>
  /\ lastSpeech = SpeechStep("init", << >>, << >>)

\* A text delta reaches the speech queue.
SpeechDelta ==
  \E f \in Fragments :
    LET buf == Concat(Append(pendingText, f))
    IN  /\ Len(pendingText) < MaxFrags
        /\ pendingText' = IF ShouldFlush(buf) THEN << >>
                          ELSE Append(pendingText, f)
        /\ lastSpeech' = SpeechStep("delta", buf,
                                    IF ShouldFlush(buf) THEN buf ELSE << >>)
        /\ UNCHANGED << dvars, pvars, mp3Playing, mp3Cut, xvars >>

\* turnComplete reaches the speech queue: the forced flush.
SpeechTurnComplete ==
  /\ pendingText' = << >>
  /\ lastSpeech' = SpeechStep("turnComplete", Concat(pendingText),
                              Concat(pendingText))
  /\ UNCHANGED << dvars, pvars, mp3Playing, mp3Cut, xvars >>

\* The clip of the <audio> element plays to its end.
Mp3Ended ==
  /\ mp3Playing
  /\ mp3Playing' = FALSE
  /\ mp3Cut' = FALSE
  /\ lastMsg' = "mp3.ended"
  /\ UNCHANGED << dvars, playerRef, queue, offset, currentChunk, transcript,
                  mp3AudioRef, owed, output, due, cleared, pendingText,
                  lastSpeech, xvars >>

NextSpeech ==
  \/ SpeechDelta \/ SpeechTurnComplete
  \/ WsAudioMp3 \/ Mp3Ended \/ WsInterrupted

(* ========================= the microphone framer ====================== *)
(* PCMInputProcessor.process of the worklet module (part_004), with the    *)
(* block size scaled down.                                                 *)

\* samples of one block (bufferSize)
BufferSize == 2
\* samples one input callback may carry
MaxChannel == 4
\* samples of the whole input stream
MaxStream == 7
\* the values a sample takes
SampleValues == {1, 2}

\* The input callbacks: inputs[0][0] of every length up to MaxChannel.
Channels ==
  UNION {[1..n -> SampleValues] : n \in 0..MaxChannel}

\* A framer that drops what is left of a callback once a block is full.
NextInputSkipsRest(i, toCopy, len) == len

\* i += toCopy
NextInput(i, toCopy, len) == i + toCopy

\* this.buffer.set(channel.subarray(i, i + toCopy), this.offset)
BufferSet(buf, channel, i, toCopy, off) ==
  [k \in 1..BufferSize |->
     IF k > off /\ k <= off + toCopy THEN channel[i + (k - off)] ELSE buf[k]]

\* process: the loop `while (i < channel.length)`, from index i.
RECURSIVE ProcessLoop(_, _, _)
ProcessLoop(f, channel, i) ==
  IF i >= Len(channel) THEN f
  ELSE LET remaining == BufferSize - f.offset
           toCopy    == Min(remaining, Len(channel) - i)
           f1 == [f EXCEPT !.buffer = BufferSet(@, channel, i, toCopy, f.offset),
                           !.offset = @ + toCopy]
           f2 == IF f1.offset >= BufferSize
                 THEN [f1 EXCEPT !.posted = Append(@, f1.buffer), !.offset = 0]
                 ELSE f1
       IN  ProcessLoop(f2, channel, NextInput(i, toCopy, Len(channel)))

\* constructor: new Float32Array(bufferSize) is all zeros.
FramerInit ==
  /\ micBuffer = [k \in 1..BufferSize |-> 0] /\ micOffset = 0
  /\ micStream = << >> /\ posted = << >>

\* process(inputs) for one input callback.
Process ==
  \E channel \in Channels :
    /\ Len(micStream) + Len(channel) <= MaxStream
    /\ LET f == ProcessLoop([buffer |-> micBuffer, offset |-> micOffset,
                             posted |-> posted], channel, 0)
       IN  /\ micBuffer' = f.buffer /\ micOffset' = f.offset
           /\ posted' = f.posted
    /\ micStream' = micStream \o channel
    /\ UNCHANGED << dvars, pvars, svars, vvars >>

(* ================== the vision-stream dashboard socket ================= *)
(* The websocket effect of the vision-stream DashboardPage (part_005 lines  *)
(* 176-233, the same text as frontend/src/pages/dashboard-page.tsx).        *)

\* sockets one run of the effect may create
MaxVisionSockets == 4
VISION_RECONNECT_MS == 1200
KEEPALIVE_MS == 15000

VisionInit ==
  /\ teardown = FALSE /\ socket = 0 /\ reconnectTimer = 0
  /\ keepaliveTimer = 0 /\ visionSockets = << >> /\ visionTimers = {}
  /\ visionLast = [op |-> "init", scheduled |-> 0]

VisionCur ==
  [teardown |-> teardown, socket |-> socket, reconnectTimer |-> reconnectTimer,
   keepaliveTimer |-> keepaliveTimer, sockets |-> visionSockets,
   timers |-> visionTimers, scheduled |-> 0]

\* window.setTimeout / setInterval return a handle no active timer and no
\* variable holds.
VisionHandle(v) ==
  CHOOSE h \in 1..5 :
    /\ h \notin {t.id : t \in v.timers}
    /\ h # v.reconnectTimer /\ h # v.keepaliveTimer

\* window.clearTimeout / clearInterval
VisionClear(v, h) == [v EXCEPT !.timers = {t \in @ : t.id # h}]

\* connect
VisionConnect(v) ==
  IF v.teardown THEN v
  ELSE [v EXCEPT !.sockets = Append(@, WS_CONNECTING),
                 !.socket = Len(v.sockets) + 1]

\* socket.onopen
VisionOnOpen(v) ==
  LET h == VisionHandle(v)
  IN  [v EXCEPT !.keepaliveTimer = h,
                !.timers = @ \cup {[id |-> h, kind |-> "keepalive",
                                    ms |-> KEEPALIVE_MS]}]

\* A close handler that schedules the reconnect whatever teardown says.
VisionOnCloseAlwaysReconnects(v) ==
  LET v1 == IF v.keepaliveTimer # 0 THEN VisionClear(v, v.keepaliveTimer)
            ELSE v
      h  == VisionHandle(v1)
  IN  [v1 EXCEPT !.reconnectTimer = h, !.scheduled = @ + 1,
                 !.timers = @ \cup {[id |-> h, kind |-> "reconnect",
                                     ms |-> VISION_RECONNECT_MS]}]

\* socket.onclose
VisionOnClose(v) ==
  LET v1 == IF v.keepaliveTimer # 0 THEN VisionClear(v, v.keepaliveTimer)
            ELSE v
      h  == VisionHandle(v1)
  IN  IF v1.teardown THEN v1
      ELSE [v1 EXCEPT !.reconnectTimer = h, !.scheduled = @ + 1,
                      !.timers = @ \cup {[id |-> h, kind |-> "reconnect",
                                          ms |-> VISION_RECONNECT_MS]}]

\* socket?.close() on the socket the variable names
VisionSocketClose(v) ==
  IF v.socket # 0 /\ v.sockets[v.socket] \in {WS_CONNECTING, WS_OPEN}
  THEN [v EXCEPT !.sockets[v.socket] = WS_CLOSING]
  ELSE v

\* clearTimers
VisionClearTimers(v) ==
  LET v1 == IF v.reconnectTimer # 0 THEN VisionClear(v, v.reconnectTimer)
            ELSE v
  IN  IF v1.keepaliveTimer # 0 THEN VisionClear(v1, v1.keepaliveTimer)
      ELSE v1

\* The cleanup the effect returns.
VisionCleanup(v) ==
  VisionSocketClose(VisionClearTimers([v EXCEPT !.teardown = TRUE]))

\* The handler named `op` has run and left v; `scheduled` is the number of
\* reconnect timers it set.
VisionDo(v, op) ==
  /\ teardown' = v.teardown /\ socket' = v.socket
  /\ reconnectTimer' = v.reconnectTimer
  /\ keepaliveTimer' = v.keepaliveTimer
  /\ visionSockets' = v.sockets /\ visionTimers' = v.timers
  /\ visionLast' = [op |-> op, scheduled |-> v.scheduled]
  /\ UNCHANGED << dvars, pvars, svars, fvars >>

VisionSocks == 1..Len(visionSockets)

\* The effect runs: connect().
VisionMount ==
  /\ visionLast.op = "init"
  /\ VisionDo(VisionConnect(VisionCur), "mount")

VisionOpen ==
  \E k \in VisionSocks :
    /\ visionSockets[k] = WS_CONNECTING
    /\ VisionDo(VisionOnOpen([VisionCur EXCEPT !.sockets[k] = WS_OPEN]), "onopen")

\* socket.onerror runs for socket k: it closes the socket the variable names.
VisionError ==
  \E k \in VisionSocks :
    /\ visionSockets[k] \in {WS_CONNECTING, WS_OPEN}
    /\ VisionDo(VisionSocketClose(VisionCur), "onerror")

VisionClose ==
  \E k \in VisionSocks :
    /\ visionSockets[k] \in {WS_CONNECTING, WS_OPEN, WS_CLOSING}
    /\ VisionDo(VisionOnClose([VisionCur EXCEPT !.sockets[k] = WS_CLOSED]),
                "onclose")

\* The reconnect timeout fires: its callback is connect.
VisionTimerFire ==
  \E t \in visionTimers :
    /\ t.kind = "reconnect"
    /\ teardown \/ Len(visionSockets) < MaxVisionSockets
    /\ VisionDo(VisionConnect([VisionCur EXCEPT !.timers = @ \ {t}]),
                "reconnect.timer")

\* The keepalive interval fires: a ping goes out if the socket is open.
VisionKeepalive ==
  \E t \in visionTimers :
    /\ t.kind = "keepalive"
    /\ VisionDo(VisionCur, "keepalive")

\* The effect's cleanup runs (unmount, or a dependency changed).
VisionTeardown ==
  /\ visionLast.op # "init" /\ ~teardown
  /\ VisionDo(VisionCleanup(VisionCur), "teardown")

NextVision ==
  \/ VisionMount \/ VisionOpen \/ VisionError \/ VisionClose
  \/ VisionTimerFire \/ VisionKeepalive \/ VisionTeardown

Init ==
  DashInit /\ PlayerInit /\ Mp3Init /\ SpeechInit /\ FramerInit /\ VisionInit

SpecVision == Init /\ [][NextVision]_vars

SpecFramer == Init /\ [][Process]_vars

Spec == Init /\ [][Next]_vars

SpecRelay == Init /\ [][NextRelay]_vars

SpecMic == Init /\ [][NextMic]_vars

\* The two channels side by side: connects, closes and both reconnect
\* timers, without the traffic they carry.
NextChannels ==
  \/ Mount \/ Unmount
  \/ GeminiOpen \/ GeminiResolve \/ GeminiReject \/ GeminiError
  \/ GeminiClosing \/ GeminiClose \/ GeminiTimerFire
  \/ ViewerOpen \/ ViewerError \/ ViewerClose \/ ViewerTimerFire

SpecChannels == Init /\ [][NextChannels]_vars

\* The relay and the throttle of the development build (StrictMode).
NextRelayStrict == MountStrict \/ Unmount \/ RelayNext

SpecRelayStrict == Init /\ [][NextRelayStrict]_vars

SpecPlayer == Init /\ [][NextPlayer]_vars

SpecSpeech == Init /\ [][NextSpeech]_vars

(* ============================== the claims ============================ *)
GeminiTimerPending == \E t \in timeouts : t.cb = "gemini"
ViewerTimerPending == \E t \in timeouts : t.cb = "viewer"

\* The last handler was the close handler, for a close that was not
\* intentional and carried the rejection code.
FatalCloseHandled ==
  /\ lastOp.op = "onclose" /\ lastOp.n = POLICY_CODE
  /\ mountedRef /\ ~intentionalGeminiCloseRef

FatalEventLogged ==
  \E i \in 1..Len(logged) :
    /\ logged[i].tag = "Gemini rejected session"
    /\ (lastOp.text # "" => logged[i].detail = lastOp.text)

\* C1: after the close handler ran for a non-intentional close with the
\* policy-rejection code, the session is Disconnected, the handler created
\* no reconnect timer and none is pending, and the fatal event with the
\* close reason was logged.
C1_FatalCloseNeverReconnects ==
  FatalCloseHandled =>
    /\ ~geminiConnectedRef /\ ~geminiConnected
    /\ timersSet = << >>
    /\ ~GeminiTimerPending
    /\ FatalEventLogged

\* The timers the last handler set for the live session's reconnect.
GeminiTimersSet ==
  {i \in 1..Len(timersSet) : timersSet[i].cb = "gemini"}

\* The last handler was the close handler, for a close that is neither
\* intentional nor a rejection, with the component mounted.
RetryableCloseHandled ==
  /\ lastOp.op = "onclose" /\ lastOp.n # POLICY_CODE
  /\ mountedRef /\ ~intentionalGeminiCloseRef

TornDown == phase \in {"loggedOut", "unmounted"}

\* C4: after an intentional close (logout, unmount) the flag is set, no
\* reconnect timer is pending, and no handler schedules one or is the
\* reconnect callback, whatever events of the session arrive later.
C4_TeardownNeverReconnects ==
  TornDown =>
    /\ intentionalGeminiCloseRef
    /\ ~GeminiTimerPending
    /\ GeminiTimersSet = {}
    /\ lastOp.op # "gemini.timer"

\* After the teardown the close event of a session arrived, with a code
\* the handler would retry, while a connect was still in flight.
C4_Witness ==
  /\ TornDown
  /\ lastOp.op = "onclose" /\ lastOp.n # POLICY_CODE
  /\ geminiConnectingRef

\* C5: a call of safeSendRealtimeInput writes only with a session handle,
\* the cached flag true and the transport open; with the flag true and
\* the transport not open it writes nothing, returns false without
\* throwing and leaves the cached flag false.
C5_SendIsGated ==
  \A i \in 1..Len(sends) :
    LET c == sends[i]
    IN  /\ c.wrote => (c.sid # 0 /\ c.flag /\ c.ws = WS_OPEN)
        /\ c.result = c.wrote
        /\ (c.sid # 0 /\ c.flag /\ c.ws # WS_OPEN) =>
             (~c.wrote /\ ~c.result /\ ~c.threw /\ ~geminiConnectedRef)

\* A send met a stale cached flag: the transport was closing.
C5_Witness ==
  \E i \in 1..Len(sends) :
    /\ sends[i].sid # 0 /\ sends[i].flag /\ sends[i].ws = WS_CLOSING
    /\ ~sends[i].result

\* C9: a tick forwards at most one frame; a tick that follows the receipt
\* of frames hands exactly one frame to the send path, the most recently
\* received one, and the open session is written exactly that frame.
C9_TickForwardsLatestFrame ==
  lastOp.op = "tick" =>
    /\ Len(sends) <= 1
    /\ lastOp.n >= 1 =>
         /\ Len(sends) = 1
         /\ sends[1].kind = "video" /\ sends[1].data = lastRecv
         /\ sends[1].data = latestPiFrameRef
         /\ (sends[1].sid # 0 /\ sends[1].flag /\ sends[1].ws = WS_OPEN
               /\ ~sends[1].threw) => sends[1].wrote

\* Two frames arrived between two ticks and the tick wrote the later one.
C9_Witness ==
  /\ lastOp.op = "tick" /\ lastOp.n = 2
  /\ Len(sends) = 1 /\ sends[1].wrote /\ sends[1].data = lastRecv

SourceDisconnectHandled ==
  lastOp.op = "viewer.onmessage" /\ lastOp.text = "source_disconnected"

C6_InterruptedClearsAudioAndText ==
  /\ lastMsg = "interrupted" =>
       /\ queue = << >> /\ currentChunk = Null /\ offset = 0
       /\ transcript = << >>
  /\ lastMsg = "ws.interrupted" => mp3AudioRef = 0

\* C7: a render tick fills the whole buffer, with samples of frames while
\* any are owed and with zeros from there on.
C7_TickFillsBufferWithFramesOrSilence ==
  lastMsg = "tick" =>
    /\ Len(output) = OutLen
    /\ \A i \in 1..Len(output) :
         /\ output[i] # NaN
         /\ i > due.n => output[i] = 0

\* C8: the samples rendered are the decoded frames in feed order, nothing
\* dropped, repeated or inserted, then zeros.
C8_OutputIsFifoConcatenation ==
  lastMsg = "tick" => output = due.samples

\* A chunk was flushed by the speech queue's last step.
Flushed == lastSpeech.chunk # << >>

\* Position k holds terminal punctuation and only whitespace follows it.
TerminalEnd(buf) ==
  \E k \in 1..Len(buf) :
    /\ buf[k] \in Terminal
    /\ \A j \in (k + 1)..Len(buf) : buf[j] \in Whitespace

\* C11: after a text delta the pending text becomes a chunk exactly when it
\* ends in `.`, `!` or `?` optionally followed by whitespace or is longer
\* than the threshold, and on turnComplete exactly when it is not empty; the
\* chunk is the whole buffer and nothing stays pending.  "Obstacle ahead."
\* flushes at once, unpunctuated text flushes once it is longer than 32.
C11_FlushPolicy ==
  /\ lastSpeech.op = "delta" =>
       (Flushed <=> (TerminalEnd(lastSpeech.buf)
                       \/ Len(lastSpeech.buf) > FLUSH_THRESHOLD))
  /\ lastSpeech.op = "turnComplete" => (Flushed <=> lastSpeech.buf # << >>)
  /\ Flushed => (lastSpeech.chunk = lastSpeech.buf /\ pendingText = << >>)
  /\ ~Flushed => Concat(pendingText) = lastSpeech.buf
  /\ (lastSpeech.op = "delta" /\ lastSpeech.buf = ObstacleAhead) => Flushed
  /\ (lastSpeech.op = "delta" /\ Len(lastSpeech.buf) <= FLUSH_THRESHOLD
        /\ \A i \in 1..Len(lastSpeech.buf) : lastSpeech.buf[i] \notin Terminal)
       => ~Flushed

\* 40 unpunctuated characters were flushed by the delta that crossed the
\* threshold.
C11_Witness ==
  /\ lastSpeech.op = "delta" /\ Flushed
  /\ Len(lastSpeech.buf) = 40 /\ ~TerminalEnd(lastSpeech.buf)

\* C12: the clips of synthesized speech play one after the other: a clip
\* starts only when the one before it has played to its end, so the arrival
\* of a clip never cuts off the clip that is playing.
C12_ClipsPlayToTheEnd ==
  lastMsg = "audio_mp3" => (mp3Playing /\ ~mp3Cut)

\* A connect is in flight or a session is open.
SessionLive ==
  \E s \in Sids :
    \/ sessions[s].ws = WS_OPEN
    \/ sessions[s].ws = WS_CONNECTING /\ sessions[s].promise = "pending"

\* C13: a handler that reaches connectGemini (startMic, the reconnect
\* timer) while a connect is in flight or a session is open creates no
\* provider session and leaves the session handle and the connecting flag
\* as they were.
C13_ConnectIsIdempotent ==
  [][ (SessionLive /\ lastOp'.op \in {"startMic", "gemini.timer"}) =>
        /\ Len(sessions') = Len(sessions)
        /\ sessionRef' = sessionRef
        /\ geminiConnectingRef' = geminiConnectingRef ]_vars

\* The relay's pending reconnect timers and its sockets not yet closed
\* or closing.
ViewerTimers == {t \in timeouts : t.cb = "viewer"}
LiveSockets == {k \in Socks : sockets[k] \in {WS_CONNECTING, WS_OPEN}}

\* C14: a close of the relay socket handled while the component is mounted
\* schedules exactly one reconnect timer, which is then the only one
\* pending; at every moment at most one relay reconnect timer is pending
\* and at most one relay socket is connecting or open.
C14_OneRelayTimerOneSocket ==
  /\ Cardinality(ViewerTimers) <= 1
  /\ Cardinality(LiveSockets) <= 1
  /\ (lastOp.op = "viewer.onclose" /\ mountedRef) =>
       /\ Len(timersSet) = 1 /\ timersSet[1].cb = "viewer"
       /\ ViewerTimers = {[id |-> viewerReconnectTimerRef, cb |-> "viewer"]}

\* The provider sessions that are open or still connecting.
LiveSessions == {s \in Sids : sessions[s].ws \in {WS_CONNECTING, WS_OPEN}}

\* C15: once the unmount cleanups have run, no reconnect or throttle timer
\* is pending, no relay socket and no live session is open or connecting,
\* the microphone is released and no handler writes to the live session.
C15_TeardownReleasesEverything ==
  phase = "unmounted" =>
    /\ timeouts = {} /\ ~frameTimer
    /\ LiveSockets = {}
    /\ LiveSessions = {}
    /\ ~micWorkletRef
    /\ \A i \in 1..Len(sends) : ~sends[i].wrote

\* The writes of the last handler, and its calls of the send path for
\* microphone audio.
Writes == {i \in 1..Len(sends) : sends[i].wrote}
AudioSends == {i \in 1..Len(sends) : sends[i].kind = "audio"}

\* C16: only the port handler sends microphone audio, one call for the
\* block it was given; a block that arrives while the session is not open
\* (no handle, or the flag false, or the transport not open) is not
\* written, and no later handler sends it: what a handler writes is the
\* block it was given.
C16_BlocksAreDroppedNotBuffered ==
  /\ lastOp.op # "micBlock" => AudioSends = {}
  /\ lastOp.op = "micBlock" =>
       /\ Len(sends) = 1
       /\ sends[1].kind = "audio" /\ sends[1].data = lastOp.n
       /\ (sends[1].sid = 0 \/ ~sends[1].flag \/ sends[1].ws # WS_OPEN)
            => ~sends[1].wrote

\* A block arrived after the session had closed, while the reconnect was
\* in flight, and was dropped.
C16_Witness ==
  /\ lastOp.op = "micBlock" /\ lastOp.n = 2
  /\ sends[1].sid = 0 /\ Writes = {}
  /\ Len(sessions) = 2 /\ sessions[1].ws = WS_CLOSED
  /\ sessions[2].promise = "pending"

\* The session the send path saw was open.
SawOpen(c) == c.sid # 0 /\ c.flag /\ c.ws = WS_OPEN

\* C17: stopMic releases the microphone and makes one call of the send
\* path, for the end-of-stream marker, which is written exactly when the
\* session is open (and the write does not fail); once the marker of a
\* capture run is written, no microphone block is written.
C17_MarkerIsLastAudioPayload ==
  [][ /\ lastOp'.op = "stopMic" =>
           /\ ~micWorkletRef'
           /\ Len(sends') = 1 /\ sends'[1].kind = "audioStreamEnd"
           /\ sends'[1].wrote <=> (SawOpen(sends'[1]) /\ ~sends'[1].threw)
      /\ (markerSent /\ lastOp'.op = "micBlock") => Writes' = {} ]_vars

\* The part of C17 that is about the stopMic call itself.
C17_StopMicSendsOneMarker ==
  lastOp.op = "stopMic" =>
    /\ ~micWorkletRef
    /\ Len(sends) = 1 /\ sends[1].kind = "audioStreamEnd"
    /\ sends[1].wrote <=> (SawOpen(sends[1]) /\ ~sends[1].threw)

\* C18: a relay message that fails to parse is logged, once, and dropped:
\* the handler completes, the socket it came on stays open, and the camera
\* presence, the latest frame, the preview and connection state of the
\* relay, the throttle and the timers are as they were.
C18_MalformedMessageIsLoggedAndDropped ==
  [][ (lastOp'.op = "viewer.onmessage" /\ lastOp'.text = "malformed") =>
        /\ logged' = << Entry("Malformed relay message", "") >>
        /\ sockets' = sockets /\ sockets'[lastOp'.id] = WS_OPEN
        /\ wsRef' = wsRef /\ piConnected' = piConnected
        /\ cameraOn' = cameraOn /\ hasPiPreview' = hasPiPreview
        /\ latestPiFrameRef' = latestPiFrameRef
        /\ frameTimer' = frameTimer /\ timeouts' = timeouts
        /\ viewerReconnectTimerRef' = viewerReconnectTimerRef
        /\ sends' = << >> ]_vars

\* A malformed message was handled with the camera on and a frame stored.
C18_Witness ==
  /\ lastOp.op = "viewer.onmessage" /\ lastOp.text = "malformed"
  /\ logged = << Entry("Malformed relay message", "") >>
  /\ sockets[lastOp.id] = WS_OPEN /\ piConnected
  /\ cameraOn /\ hasPiPreview /\ latestPiFrameRef # 0

\* The handlers of the relay socket and of the live session.
RelayOps == {"viewer.onopen", "viewer.onerror", "viewer.onclose", "viewer.timer"}
LiveOps ==
  {"onopen", "resolve", "reject", "onerror", "closing", "onclose", "gemini.timer"}

\* What each channel's reconnection consists of: its connection, its flags,
\* its timer ref, its pending timers and (live session) the reconnect count.
LiveChannel ==
  << sessionRef, sessions, geminiConnectedRef, geminiConnected,
     geminiConnectingRef, intentionalGeminiCloseRef, geminiReconnectTimerRef,
     {t \in timeouts : t.cb = "gemini"}, retries >>
RelayChannel ==
  << wsRef, sockets, piConnected, viewerReconnectTimerRef,
     {t \in timeouts : t.cb = "viewer"} >>

\* C19: a handler of one channel (open, error, close, reconnect timer,
\* connect outcome) leaves the other channel's connection state, timer ref,
\* pending timers and reconnect count as they were, and no pending timer of
\* one channel is the one the other channel's ref names.
C19_ChannelsReconnectIndependently ==
  [][ /\ lastOp'.op \in RelayOps => LiveChannel' = LiveChannel
      /\ lastOp'.op \in LiveOps => RelayChannel' = RelayChannel
      /\ \A t \in timeouts' :
           /\ t.cb = "gemini" => t.id # viewerReconnectTimerRef'
           /\ t.cb = "viewer" => t.id # geminiReconnectTimerRef' ]_vars

\* The relay's close handler scheduled its reconnect while the live
\* session's reconnect timer was pending, and both are pending now.
C19_Witness ==
  /\ lastOp.op = "viewer.onclose" /\ mountedRef
  /\ \E t \in timeouts : t.cb = "gemini" /\ t.id = geminiReconnectTimerRef
  /\ \E t \in timeouts : t.cb = "viewer" /\ t.id = viewerReconnectTimerRef
  /\ retries > 0

\* C20: whatever a handler wrote to the provider session (video, audio,
\* end-of-stream marker, user text) was written with the handle set, the
\* cached flag true and the transport open, and no write left its handler
\* with an exception.
C20_EveryWriteIsGated ==
  \A i \in 1..Len(sends) :
    /\ sends[i].wrote => SawOpen(sends[i])
    /\ ~sends[i].escaped

\* The part of C20 that is about the payloads of safeSendRealtimeInput.
C20_RealtimeWritesAreGated ==
  \A i \in 1..Len(sends) :
    sends[i].kind # "text" =>
      /\ sends[i].wrote => SawOpen(sends[i])
      /\ ~sends[i].escaped

\* C21: the live session's error handler only logs: the cached connected
\* flag, the displayed session state and the stored handle are as they were
\* before it ran, so a session that was live before the error is live and
\* able to send after it.
C21_ErrorHandlerOnlyLogs ==
  [][ lastOp'.op = "onerror" =>
        /\ logged' = << Entry("Gemini error", "") >>
        /\ geminiConnectedRef' = geminiConnectedRef
        /\ geminiConnected' = geminiConnected
        /\ sessionRef' = sessionRef ]_vars

\* The parts of C21 the handler keeps: it logs once, leaves the handle and
\* the reconnect timer alone and never sets the flag.
C21_ErrorHandlerKeepsHandle ==
  [][ lastOp'.op = "onerror" =>
        /\ logged' = << Entry("Gemini error", "") >>
        /\ sessionRef' = sessionRef /\ sessions' = sessions
        /\ timeouts' = timeouts
        /\ ~geminiConnectedRef' /\ ~geminiConnected' ]_vars

\* A send that passed the handle and flag checks and failed: the transport
\* was not open, or the SDK's send threw.
SendFailed(c) == c.sid # 0 /\ c.flag /\ ~c.wrote
SendFailureLogged ==
  \E j \in 1..Len(logged) : logged[j].tag = "Gemini socket send failed"

\* C22: a handler in which a send failed (transport not open, or the send
\* threw) ends with the session state and the flag false and an entry for
\* the failure in the event log, and it sets no timer and starts no connect.
C22_SendFailureDisconnectsAndLogs ==
  [][ (\E i \in 1..Len(sends') : SendFailed(sends'[i])) =>
        /\ ~geminiConnectedRef' /\ ~geminiConnected'
        /\ SendFailureLogged'
        /\ timersSet' = << >>
        /\ Len(sessions') = Len(sessions)
        /\ geminiConnectingRef' = geminiConnectingRef ]_vars

\* The parts of C22 that hold: state and flag go false, the failure is
\* reported on the console, in the event log too when the send threw, and
\* no timer is set and no connect started.
C22_SendFailureDisconnects ==
  [][ \A i \in 1..Len(sends') : SendFailed(sends'[i]) =>
        /\ ~geminiConnectedRef' /\ ~geminiConnected'
        /\ sends'[i].console
        /\ sends'[i].threw => SendFailureLogged'
        /\ timersSet' = << >>
        /\ Len(sessions') = Len(sessions)
        /\ geminiConnectingRef' = geminiConnectingRef ]_vars

\* C23: clear() leaves the engine with an empty queue, no current frame
\* and the cursor at zero, and the first render tick after it outputs the
\* samples fed since the clear, from their first sample on, then silence:
\* nothing of a frame fed before the clear.
C23_ClearIsAtomicForTicks ==
  [][ /\ (lastMsg' = "interrupted" /\ playerRef') =>
           (queue' = << >> /\ currentChunk' = Null /\ offset' = 0)
      /\ (cleared /\ lastMsg' = "tick") =>
           output' = Take(owed \o Zeros(OutLen), OutLen) ]_vars

\* C23 when every queued frame carries a sample.
C23_NothingStaleAfterClear ==
  [][ (cleared /\ lastMsg' = "tick"
         /\ \A k \in 1..Len(queue) : queue[k] # << >>) =>
        output' = Take(owed \o Zeros(OutLen), OutLen) ]_vars

\* C24: every block posted has exactly bufferSize samples; the blocks
\* posted, one after the other, are the longest prefix of the input stream
\* whose length is a multiple of bufferSize; between callbacks the offset is
\* in [0, bufferSize) and the buffer holds the samples not yet posted.
C24_FramerEmitsWholeBlocksInOrder ==
  LET whole == (Len(micStream) \div BufferSize) * BufferSize
  IN  /\ \A k \in 1..Len(posted) : Len(posted[k]) = BufferSize
      /\ Concat(posted) = SubSeq(micStream, 1, whole)
      /\ micOffset \in 0..(BufferSize - 1)
      /\ micOffset = Len(micStream) - whole
      /\ \A k \in 1..micOffset : micBuffer[k] = micStream[whole + k]

\* Callbacks of other lengths than bufferSize have filled two blocks and
\* part of a third.
C24_Witness ==
  /\ Len(posted) = 2 /\ micOffset > 0
  /\ Len(micStream) = 2 * BufferSize + micOffset
  /\ posted[1] # posted[2]

\* C25: at most one provider session is open or connecting at any time.
C25_AtMostOneLiveSession == Cardinality(LiveSessions) <= 1

\* The close event of session s has been handled and its connect call has
\* returned the session.
ClosedAndReturned(s) ==
  sessions[s].ws = WS_CLOSED /\ sessions[s].promise = "resolved"

\* C26: a session whose close event has been handled and whose connect
\* call has returned is not the stored session, whichever of the two came
\* first.
C26_NoDeadHandle ==
  \A s \in Sids : ClosedAndReturned(s) => sessionRef # s

\* C26 for the order close after return: the close handler empties the
\* handle.
C26_CloseAfterReturnEmptiesHandle ==
  [][ (lastOp'.op = "onclose" /\ sessionRef # 0) => sessionRef' = 0 ]_vars

\* A reconnect attempt is under way or scheduled, or a session is stored.
RecoveryUnderWay ==
  GeminiTimerPending \/ geminiConnectingRef \/ sessionRef # 0

\* C27: while mounted with no intentional close, when the connect call of a
\* reconnect attempt (one that follows a retryable close, with no close
\* event of its own) rejects, or the timer's callback skips its connect, a
\* further attempt is scheduled or in flight: the session is not left
\* disconnected with no timer pending and no connect in flight.
C27_FailedReconnectIsRetried ==
  [][ ( /\ mountedRef /\ ~intentionalGeminiCloseRef /\ retries > 0
        /\ \/ lastOp'.op = "reject" /\ sessions[lastOp'.id].ws = WS_CONNECTING
           \/ lastOp'.op = "gemini.timer" )
      => RecoveryUnderWay' ]_vars

\* The part of C27 that holds: a retryable close handled while mounted
\* leaves a reconnect timer pending, and a timer that fires with no session
\* stored and no connect in flight starts a connect.
C27_RetryableCloseSchedules ==
  [][ /\ (lastOp'.op = "onclose" /\ lastOp'.n # POLICY_CODE
            /\ mountedRef' /\ ~intentionalGeminiCloseRef') => GeminiTimerPending'
      /\ (lastOp'.op = "gemini.timer" /\ mountedRef /\ sessionRef = 0
            /\ ~geminiConnectingRef) => geminiConnectingRef' ]_vars

\* C28: a tick with no frame received since the tick before it hands
\* nothing to the send path, so no frame is forwarded twice, and neither
\* does a tick that runs while the relay socket is closed.
C28_FrameForwardedOnceWhileRelayUp ==
  lastOp.op = "tick" =>
    /\ lastOp.n = 0 => sends = << >>
    /\ ~piConnected => sends = << >>

\* The part of C28 that holds: a tick forwards only while the camera flag
\* is set, and what it forwards is the frame last received.
C28_TickForwardsStoredFrame ==
  lastOp.op = "tick" =>
    /\ cameraOn
    /\ sends # << >> => (sends[1].data = lastRecv /\ sends[1].data # 0)

\* The frames waiting in the queue that carry a sample.
RECURSIVE NonEmptyFrames(_)
NonEmptyFrames(q) ==
  IF q = << >> THEN << >>
  ELSE (IF Head(q) = << >> THEN << >> ELSE << Head(q) >>)
         \o NonEmptyFrames(Tail(q))

\* C29: a frame of zero samples contributes nothing to the output: a tick
\* outputs what it would output with the zero-sample frames taken out of
\* the queue, and no undefined value.
C29_ZeroSampleFrameIsSkipped ==
  [][ lastMsg' = "tick" =>
        /\ output' = RenderLoop([queue |-> NonEmptyFrames(queue),
                                 offset |-> offset,
                                 currentChunk |-> currentChunk,
                                 out |-> << >>], 0, OutLen).out
        /\ \A i \in 1..Len(output') : output'[i] # NaN ]_vars

VisionReconnects == {t \in visionTimers : t.kind = "reconnect"}
VisionKeepalives == {t \in visionTimers : t.kind = "keepalive"}

\* C30: once the effect's cleanup has run no socket is created and no
\* reconnect or keepalive timer is active; before it, every close handled
\* sets exactly one reconnect timer, the only one pending, and at most one
\* keepalive interval is active.
C30_VisionSocketTeardownAndReconnect ==
  [][ /\ teardown => Len(visionSockets') = Len(visionSockets)
      /\ teardown' => visionTimers' = {}
      /\ (visionLast'.op = "onclose" /\ ~teardown') =>
           /\ visionLast'.scheduled = 1
           /\ Cardinality(VisionReconnects') = 1
      /\ Cardinality(VisionKeepalives') <= 1 ]_vars

\* The cleanup ran with the socket closed and its reconnect pending, and
\* left no timer.
C30_Witness ==
  /\ visionLast.op = "teardown" /\ teardown
  /\ socket # 0 /\ visionSockets[socket] = WS_CLOSED
  /\ reconnectTimer # 0 /\ visionTimers = {}
  /\ Len(visionSockets) = 2

====
